---------------------------- MODULE Spec2Model ----------------------------
(***************************************************************************)
(* A model of the VaxInsight agent (src/agent.py): the six scoring         *)
(* functions, the PatientAnalytics store, the patient-journey handler,     *)
(* the chat handler with its command dispatch, the simulated-event helper  *)
(* and the acknowledgement handler.                                        *)
(*                                                                         *)
(* Python strings are sequences of one-character strings, so that lower(), *)
(* upper(), strip(), replace() and startswith() are computed and not       *)
(* assumed.  A float metric m is the integer 100*m (hundredths); on the    *)
(* values used here int(m * 5) of the IEEE double equals the truncation of *)
(* the exact quotient.  An Optional value is <<>> (None) or <<v>>.         *)
(***************************************************************************)
EXTENDS Integers, Sequences, FiniteSets, TLC

VARIABLES
    journey_stats,      \* PatientAnalytics.journey_stats: patient_id -> record
    sentiment_history,  \* PatientAnalytics.sentiment_history: list of entries
    recent_scores,      \* PatientAnalytics.recent_scores: patient_id -> ProjectScore
    inbox,              \* events the agent sent to its own address, not yet handled
    sent,               \* the ctx.send calls of the last handler run, in order
    handled,            \* the last handler run: which handler, sender, message, outcome
    ingested,           \* history: the events update_stats has recorded, in order
    echoed,             \* history: (identifier echoed by `simulate data`, event sent)
    probe,              \* the event given to the scoring functions alone
    probe_score         \* the six results of the scoring functions for probe

vars == <<journey_stats, sentiment_history, recent_scores, inbox, sent, handled,
          ingested, echoed, probe, probe_score>>

---------------------------------------------------------------------------
(* Bounds of the model.                                                    *)

MaxEvents == 3
MaxAgentEvents == 3
MaxInbox == 2
MaxFeatures == 6
GridLow == 10
GridHigh == 20

---------------------------------------------------------------------------
(* Python str methods.                                                     *)

LowerAlpha ==
    <<"a","b","c","d","e","f","g","h","i","j","k","l","m",
      "n","o","p","q","r","s","t","u","v","w","x","y","z">>

UpperAlpha ==
    <<"A","B","C","D","E","F","G","H","I","J","K","L","M",
      "N","O","P","Q","R","S","T","U","V","W","X","Y","Z">>

\* str.lower() and str.upper() on one character: the ASCII letters change.
ToLower == [c \in {UpperAlpha[i] : i \in 1..26} |->
               LowerAlpha[CHOOSE i \in 1..26 : UpperAlpha[i] = c]]

ToUpper == [c \in {LowerAlpha[i] : i \in 1..26} |->
               UpperAlpha[CHOOSE i \in 1..26 : LowerAlpha[i] = c]]

LowerChar(c) == IF c \in DOMAIN ToLower THEN ToLower[c] ELSE c

UpperChar(c) == IF c \in DOMAIN ToUpper THEN ToUpper[c] ELSE c

lower(s) == [i \in 1..Len(s) |-> LowerChar(s[i])]

upper(s) == [i \in 1..Len(s) |-> UpperChar(s[i])]

IsSpace(c) == c \in {" ", "\t", "\n"}

RECURSIVE lstrip(_)
lstrip(s) == IF s # <<>> /\ IsSpace(Head(s)) THEN lstrip(Tail(s)) ELSE s

RECURSIVE rstrip(_)
rstrip(s) ==
    IF s # <<>> /\ IsSpace(s[Len(s)]) THEN rstrip(SubSeq(s, 1, Len(s) - 1)) ELSE s

strip(s) == rstrip(lstrip(s))

startswith(s, prefix) ==
    /\ Len(s) >= Len(prefix)
    /\ SubSeq(s, 1, Len(prefix)) = prefix

\* s.replace(old, new) with a non-empty old: every non-overlapping occurrence,
\* left to right.
RECURSIVE replace(_, _, _)
replace(s, old, new) ==
    IF s = <<>> THEN <<>>
    ELSE IF startswith(s, old)
         THEN new \o replace(SubSeq(s, Len(old) + 1, Len(s)), old, new)
         ELSE <<Head(s)>> \o replace(Tail(s), old, new)

---------------------------------------------------------------------------
(* Enums and models.                                                       *)

JourneyStage == {"hesitant", "researching", "consulting", "accepting", "completed"}

Sentiment == {"positive", "negative", "neutral"}

None == <<>>

Some(v) == <<v>>

MetricKeys ==
    {"process_efficiency", "business_value", "scalability_potential", "impact_factor"}

\* PatientJourneyEvent; notes and the attached score are never read.
PatientJourneyEvent(pid, sentiment, stage, ts, metrics, feats) ==
    [patient_id |-> pid, sentiment |-> sentiment, journey_stage |-> stage,
     timestamp |-> ts, metrics |-> metrics, tech_features |-> feats]

ProjectScore(tech, eng, eff, prac, scal, imp) ==
    [technology_score |-> tech, engagement_score |-> eng, efficiency_score |-> eff,
     practicality_score |-> prac, scalability_score |-> scal, impact_score |-> imp]

total_score(score) ==
    score.technology_score + score.engagement_score + score.efficiency_score
    + score.practicality_score + score.scalability_score + score.impact_score

---------------------------------------------------------------------------
(* Scoring functions.  A result is [raised, val]: the value returned, or   *)
(* the exception that left the function.                                   *)

Returns(v) == [raised |-> "", val |-> v]

Raises(exc) == [raised |-> exc, val |-> 0]

DefaultMetric == 20

MaxSubScore == 5

Min2(a, b) == IF a <= b THEN a ELSE b

\* int(m * 5) for the metric m = v/100: truncation toward zero.
IntTimes5(v) == IF v >= 0 THEN (5 * v) \div 100 ELSE -((5 * (-v)) \div 100)

\* event.metrics.get(key, 0.2): None has no attribute get.
MetricsGet(event, key) ==
    IF event.metrics = None THEN Raises("AttributeError")
    ELSE LET m == event.metrics[1]
         IN Returns(IF key \in DOMAIN m THEN m[key] ELSE DefaultMetric)

MetricScoreNoMin(event, key) ==
    LET g == MetricsGet(event, key)
    IN IF g.raised # "" THEN g ELSE Returns(IntTimes5(g.val))

MetricScore(event, key) ==
    LET g == MetricsGet(event, key)
    IN IF g.raised # "" THEN g ELSE Returns(Min2(MaxSubScore, IntTimes5(g.val)))

calculate_technology_score(event) ==
    LET feats == IF event.tech_features = None THEN <<>> ELSE event.tech_features[1]
    IN Returns(Min2(MaxSubScore, Len(feats)))

engagement_factors ==
    [s \in JourneyStage |->
        CASE s = "hesitant" -> 1
          [] s = "researching" -> 2
          [] s = "consulting" -> 3
          [] s = "accepting" -> 4
          [] s = "completed" -> 5]

calculate_engagement_score(event) ==
    Returns(IF event.journey_stage \in DOMAIN engagement_factors
            THEN engagement_factors[event.journey_stage] ELSE 1)

calculate_efficiency_score(event) == MetricScore(event, "process_efficiency")

calculate_practicality_score(event) == MetricScore(event, "business_value")

calculate_scalability_score(event) == MetricScore(event, "scalability_potential")

calculate_impact_score(event) == MetricScore(event, "impact_factor")

\* The six results in the order the ProjectScore(...) call evaluates them.
SubScores(event) ==
    <<calculate_technology_score(event), calculate_engagement_score(event),
      calculate_efficiency_score(event), calculate_practicality_score(event),
      calculate_scalability_score(event), calculate_impact_score(event)>>

\* The score handle_patient_journey builds: the first exception propagates.
ComputeScore(event) ==
    LET r == SubScores(event)
        bad == {i \in 1..6 : r[i].raised # ""}
    IN IF bad # {}
       THEN Raises(r[CHOOSE i \in bad : \A j \in bad : i <= j].raised)
       ELSE Returns(ProjectScore(r[1].val, r[2].val, r[3].val, r[4].val, r[5].val, r[6].val))

---------------------------------------------------------------------------
(* PatientAnalytics: the store, as the record of its three attributes.     *)

analytics ==
    [journey_stats |-> journey_stats, sentiment_history |-> sentiment_history,
     recent_scores |-> recent_scores]

\* PatientAnalytics.__init__
EmptyAnalytics ==
    [journey_stats |-> <<>>, sentiment_history |-> <<>>, recent_scores |-> <<>>]

\* datetime.isoformat(): the instant as text.
isoformat(ts) == [iso |-> ts]

HistoryEntry(event) ==
    [timestamp |-> isoformat(event.timestamp), patient_id |-> event.patient_id,
     sentiment |-> event.sentiment, stage |-> event.journey_stage]

NewStats(event) ==
    [stage_changes |-> 0, positive_sentiments |-> 0, negative_sentiments |-> 0,
     current_stage |-> event.journey_stage, last_sentiment |-> event.sentiment]

update_stats_OnChange(st, event, score) ==
    LET pid == event.patient_id
        js0 == IF pid \in DOMAIN st.journey_stats THEN st.journey_stats
               ELSE (pid :> NewStats(event)) @@ st.journey_stats
        changed == js0[pid].current_stage # event.journey_stage
        r1 == [js0[pid] EXCEPT !.stage_changes = IF changed THEN @ + 1 ELSE @,
                               !.current_stage = event.journey_stage,
                               !.last_sentiment = event.sentiment]
        r2 == IF event.sentiment = "positive"
              THEN [r1 EXCEPT !.positive_sentiments = @ + 1]
              ELSE IF event.sentiment = "negative"
                   THEN [r1 EXCEPT !.negative_sentiments = @ + 1]
                   ELSE r1
    IN [journey_stats |-> [js0 EXCEPT ![pid] = r2],
        sentiment_history |-> Append(st.sentiment_history, HistoryEntry(event)),
        recent_scores |-> (pid :> score) @@ st.recent_scores]

update_stats_NeutralNotLogged(st, event, score) ==
    LET pid == event.patient_id
        js0 == IF pid \in DOMAIN st.journey_stats THEN st.journey_stats
               ELSE (pid :> NewStats(event)) @@ st.journey_stats
        r1 == [js0[pid] EXCEPT !.stage_changes = @ + 1,
                               !.current_stage = event.journey_stage,
                               !.last_sentiment = event.sentiment]
        r2 == IF event.sentiment = "positive"
              THEN [r1 EXCEPT !.positive_sentiments = @ + 1]
              ELSE IF event.sentiment = "negative"
                   THEN [r1 EXCEPT !.negative_sentiments = @ + 1]
                   ELSE r1
    IN [journey_stats |-> [js0 EXCEPT ![pid] = r2],
        sentiment_history |->
            IF event.sentiment = "neutral" THEN st.sentiment_history
            ELSE Append(st.sentiment_history, HistoryEntry(event)),
        recent_scores |-> (pid :> score) @@ st.recent_scores]

update_stats(st, event, score) ==
    LET pid == event.patient_id
        js0 == IF pid \in DOMAIN st.journey_stats THEN st.journey_stats
               ELSE (pid :> NewStats(event)) @@ st.journey_stats
        r1 == [js0[pid] EXCEPT !.stage_changes = @ + 1,
                               !.current_stage = event.journey_stage,
                               !.last_sentiment = event.sentiment]
        r2 == IF event.sentiment = "positive"
              THEN [r1 EXCEPT !.positive_sentiments = @ + 1]
              ELSE IF event.sentiment = "negative"
                   THEN [r1 EXCEPT !.negative_sentiments = @ + 1]
                   ELSE r1
    IN [journey_stats |-> [js0 EXCEPT ![pid] = r2],
        sentiment_history |-> Append(st.sentiment_history, HistoryEntry(event)),
        recent_scores |-> (pid :> score) @@ st.recent_scores]

---------------------------------------------------------------------------
(* handle_patient_journey: score the event, then record it.  An exception  *)
(* of the scoring leaves the handler before update_stats is called.        *)

IngestResult_RecordAnyway(st, msg) ==
    LET project_score == ComputeScore(msg)
    IN IF project_score.raised # ""
       THEN update_stats(st, msg, ProjectScore(0, 0, 0, 0, 0, 0))
       ELSE update_stats(st, msg, project_score.val)

IngestResult(st, msg) ==
    LET project_score == ComputeScore(msg)
    IN IF project_score.raised # "" THEN st
       ELSE update_stats(st, msg, project_score.val)

handle_patient_journey(sender, msg) ==
    LET after == IngestResult(analytics, msg)
        raised == ComputeScore(msg).raised
    IN /\ journey_stats' = after.journey_stats
       /\ sentiment_history' = after.sentiment_history
       /\ recent_scores' = after.recent_scores
       /\ ingested' = IF raised = "" THEN Append(ingested, msg) ELSE ingested
       /\ sent' = <<>>
       /\ handled' = [handler |-> "event", sender |-> sender, msg |-> msg,
                      raised |-> raised]
       /\ UNCHANGED <<echoed, probe, probe_score>>

---------------------------------------------------------------------------
(* Text constants of the chat handler and the texts a user may send.       *)

CmdHelp ==
    <<"h","e","l","p">>

CmdStatus ==
    <<"s","t","a","t","u","s">>

CmdPatientStats ==
    <<"p","a","t","i","e","n","t"," ","s","t","a","t","s"," ">>

CmdSentimentSummary ==
    <<"s","e","n","t","i","m","e","n","t"," ","s","u","m","m","a","r","y">>

CmdSimulateData ==
    <<"s","i","m","u","l","a","t","e"," ","d","a","t","a">>

CmdGenerateReport ==
    <<"g","e","n","e","r","a","t","e"," ","r","e","p","o","r","t">>

CmdExplainScoring ==
    <<"e","x","p","l","a","i","n"," ","s","c","o","r","i","n","g">>

CmdWhoAreYou ==
    <<"w","h","o"," ","a","r","e"," ","y","o","u">>

TestPatientPrefix ==
    <<"T","E","S","T","_","P","A","T","I","E","N","T","_">>

SimulatedPrefix ==
    <<"S","I","M","U","L","A","T","E","D","_">>

\* Two values of str(uuid4()).
UuidA ==
    <<"3","f","2","a","9","c","1","e","-","7","b","4","d","-","4","e","6","a",
      "-","9","c","0","f","-","5","d","8","e","2","b","1","a","7","c","3","3">>

UuidB ==
    <<"b","0","7","d","4","4","a","1","-","0","2","c","e","-","4","f","1","9",
      "-","8","a","6","b","-","e","4","1","d","9","0","c","5","f","2","a","8">>

Uuids == {UuidA, UuidB}

\* Patient identifiers of the events other agents send.
PidUpper ==
    <<"P","1">>

PidLower ==
    <<"p","1">>

PidUnknown ==
    <<"U","N","K","N","O","W","N">>

\* Other texts a user may send.
TextHelpMixed ==
    <<" "," ","H","e","L","p"," ","\n">>

TextHello ==
    <<"h","e","l","l","o">>

TextStatsUpper ==
    <<"P","A","T","I","E","N","T"," ","S","T","A","T","S"," ">>

---------------------------------------------------------------------------
(* The chat protocol's messages.  A content item is a TextContent or       *)
(* another content type of the protocol (its text is then unused).         *)

TextContent(text) == [type |-> "text", text |-> text]

OtherContent == [type |-> "metadata", text |-> <<>>]

ChatMessage(msg_id, content) == [kind |-> "ChatMessage", msg_id |-> msg_id, content |-> content]

ChatAcknowledgement(acknowledged_msg_id) ==
    [kind |-> "ChatAcknowledgement", acknowledged_msg_id |-> acknowledged_msg_id]

AgentAddress == "agent1qself"

---------------------------------------------------------------------------
(* _send_simulated_event: the event built for a suffix.  jitter is the     *)
(* four values of uuid4().int % 20, % 10, % 30 and % 15, now the clock.    *)

SimulatedEvent(patient_id_suffix, jitter, now) ==
    PatientJourneyEvent(
        TestPatientPrefix \o patient_id_suffix, "positive", "researching", now,
        Some(("process_efficiency" :> 80 + jitter[1])
             @@ ("business_value" :> 90 - jitter[2])
             @@ ("scalability_potential" :> 70 + jitter[3])
             @@ ("impact_factor" :> 85 + jitter[4])),
        Some(<<"AI", "Blockchain", "Machine Learning", "Data Analytics">>))

---------------------------------------------------------------------------
(* handle_chat_message: the response text of one text item, as the record  *)
(* of the template chosen and the values formatted into it.                *)

DefaultResponse == [kind |-> "default"]

CountSentiment(history, sentiment) ==
    Cardinality({i \in 1..Len(history) : history[i].sentiment = sentiment})

StatusResponse(st) ==
    [kind |-> "status",
     total_interactions_simulated |-> Len(st.sentiment_history),
     num_patients |-> Cardinality(DOMAIN st.journey_stats)]

\* The identifier the `patient stats` branch looks up.
QueryPatientId(user_query) ==
    upper(strip(replace(user_query, CmdPatientStats, <<>>)))

PatientStatsResponse(st, user_query) ==
    LET patient_id == QueryPatientId(user_query)
    IN IF patient_id \in DOMAIN st.journey_stats
       THEN LET stats == st.journey_stats[patient_id]
            IN [kind |-> "patient_stats",
                patient_id |-> patient_id,
                current_stage |-> stats.current_stage,
                last_sentiment |-> stats.last_sentiment,
                stage_changes |-> stats.stage_changes,
                positive_sentiments |-> stats.positive_sentiments,
                negative_sentiments |-> stats.negative_sentiments,
                sentiment_ratio |-> <<stats.positive_sentiments,
                                      stats.negative_sentiments + 1>>,
                score_info |-> IF patient_id \in DOMAIN st.recent_scores
                               THEN Some(st.recent_scores[patient_id]) ELSE None]
       ELSE [kind |-> "not_found", patient_id |-> patient_id]

SentimentSummaryResponse(st) ==
    IF st.sentiment_history # <<>>
    THEN [kind |-> "sentiment_summary",
          total |-> Len(st.sentiment_history),
          pos_count |-> CountSentiment(st.sentiment_history, "positive"),
          neg_count |-> CountSentiment(st.sentiment_history, "negative"),
          neu_count |-> CountSentiment(st.sentiment_history, "neutral")]
    ELSE [kind |-> "no_sentiment_data"]

\* The identifier `simulate data` generates and echoes.
NewPatientId(uuid) == SimulatedPrefix \o upper(SubSeq(uuid, 1, 8))

\* One pass of the loop body for a text item: the response text and the event
\* sent to the agent's own address, if any.  draw = [uuid, jitter, now].
\* analytics_report, called for `generate report`, reads analytics and writes
\* to the log only.
Dispatch(st, user_query, draw) ==
    IF user_query = CmdHelp THEN [response_text |-> [kind |-> "help"], events |-> <<>>]
    ELSE IF user_query = CmdStatus
    THEN [response_text |-> StatusResponse(st), events |-> <<>>]
    ELSE IF startswith(user_query, CmdPatientStats)
    THEN [response_text |-> PatientStatsResponse(st, user_query), events |-> <<>>]
    ELSE IF user_query = CmdSentimentSummary
    THEN [response_text |-> SentimentSummaryResponse(st), events |-> <<>>]
    ELSE IF user_query = CmdSimulateData
    THEN LET new_patient_id == NewPatientId(draw.uuid)
         IN [response_text |-> [kind |-> "simulated", new_patient_id |-> new_patient_id],
             events |-> <<SimulatedEvent(new_patient_id, draw.jitter, draw.now)>>]
    ELSE IF user_query = CmdGenerateReport
    THEN [response_text |-> [kind |-> "report_generated"], events |-> <<>>]
    ELSE IF user_query = CmdExplainScoring
    THEN [response_text |-> [kind |-> "explain_scoring"], events |-> <<>>]
    ELSE IF user_query = CmdWhoAreYou
    THEN [response_text |-> [kind |-> "who_are_you"], events |-> <<>>]
    ELSE [response_text |-> [kind |-> "fallback"], events |-> <<>>]

UserQuery(content_item) == strip(lower(content_item.text))

IsSimulate(content_item) ==
    content_item.type = "text" /\ UserQuery(content_item) = CmdSimulateData

\* The for loop over msg.content from item i on; acc is the response text so
\* far and the events sent so far, draws the random values not yet used (one
\* draw for each `simulate data` item).
RECURSIVE ChatLoop(_, _, _, _, _)
ChatLoop(st, content, i, acc, draws) ==
    IF i > Len(content) THEN acc
    ELSE IF content[i].type # "text" THEN ChatLoop(st, content, i + 1, acc, draws)
    ELSE LET user_query == UserQuery(content[i])
             d == Dispatch(st, user_query, IF draws = <<>> THEN <<>> ELSE Head(draws))
             used == user_query = CmdSimulateData
         IN ChatLoop(st, content, i + 1,
                     [response_text |-> d.response_text,
                      events |-> acc.events \o d.events],
                     IF used THEN Tail(draws) ELSE draws)

NumSimulate(content) ==
    Cardinality({i \in 1..Len(content) : IsSimulate(content[i])})

Send(to, msg) == [to |-> to, msg |-> msg]

\* The ctx.send calls of handle_chat_message, in order.
ChatSends_ResponseFirst(sender, msg, loop, response_id) ==
    [i \in 1..Len(loop.events) |-> Send(AgentAddress, loop.events[i])]
    \o <<Send(sender, ChatMessage(response_id, <<TextContent(loop.response_text)>>)),
         Send(sender, ChatAcknowledgement(msg.msg_id))>>

ChatSends(sender, msg, loop, response_id) ==
    [i \in 1..Len(loop.events) |-> Send(AgentAddress, loop.events[i])]
    \o <<Send(sender, ChatAcknowledgement(msg.msg_id)),
         Send(sender, ChatMessage(response_id, <<TextContent(loop.response_text)>>))>>

RECURSIVE IngestAll(_, _, _)
IngestAll(st, events, i) ==
    IF i > Len(events) THEN st
    ELSE IngestAll(IngestResult(st, events[i]), events, i + 1)

handle_chat_message_IngestsDirectly(sender, msg, draws, response_id) ==
    LET loop == ChatLoop(analytics, msg.content, 1,
                         [response_text |-> DefaultResponse, events |-> <<>>], draws)
        after == IngestAll(analytics, loop.events, 1)
    IN /\ sent' = ChatSends(sender, msg, loop, response_id)
       /\ journey_stats' = after.journey_stats
       /\ sentiment_history' = after.sentiment_history
       /\ recent_scores' = after.recent_scores
       /\ ingested' = ingested \o loop.events
       /\ echoed' = echoed \cup
              {[echo |-> NewPatientId(draws[i].uuid),
                patient_id |-> loop.events[i].patient_id] : i \in 1..Len(draws)}
       /\ handled' = [handler |-> "chat", sender |-> sender, msg |-> msg, raised |-> ""]
       /\ UNCHANGED <<inbox, probe, probe_score>>

handle_chat_message(sender, msg, draws, response_id) ==
    LET loop == ChatLoop(analytics, msg.content, 1,
                         [response_text |-> DefaultResponse, events |-> <<>>], draws)
    IN /\ sent' = ChatSends(sender, msg, loop, response_id)
       /\ inbox' = inbox \o loop.events
       /\ echoed' = echoed \cup
              {[echo |-> NewPatientId(draws[i].uuid),
                patient_id |-> loop.events[i].patient_id] : i \in 1..Len(draws)}
       /\ handled' = [handler |-> "chat", sender |-> sender, msg |-> msg, raised |-> ""]
       /\ UNCHANGED <<journey_stats, sentiment_history, recent_scores, ingested,
                      probe, probe_score>>

handle_acknowledgement(sender, msg) ==
    /\ sent' = <<>>
    /\ handled' = [handler |-> "ack", sender |-> sender, msg |-> msg, raised |-> ""]
    /\ UNCHANGED <<journey_stats, sentiment_history, recent_scores, inbox, ingested,
                   echoed, probe, probe_score>>

---------------------------------------------------------------------------
(* The messages the environment sends.                                     *)

Users == {"agent1quser1", "agent1quser2"}

\* The chat messages' senders and identifiers.
Envelopes == {<<"agent1quser1", "m1">>, <<"agent1quser2", "m2">>}

EventSender == "agent1qclinic"

ResponseIds == {"r1"}

FullMetrics(v) == Some([k \in MetricKeys |-> v])

FeatureLabels == <<"AI", "Blockchain", "Machine Learning", "Data Analytics">>

FeatureList(n) == [i \in 1..n |-> FeatureLabels[((i - 1) % 4) + 1]]

\* Events of the store specification: both identifiers, every sentiment, two
\* stages, and events with out-of-range, missing and absent metrics.
StoreEvents ==
    {PatientJourneyEvent(pid, s, g, 1, FullMetrics(80), Some(FeatureList(4))) :
        pid \in {PidUpper, PidLower}, s \in Sentiment, g \in {"hesitant", "completed"}}
    \cup {PatientJourneyEvent(PidUpper, "negative", "consulting", 2,
                              FullMetrics(-100), None),
          PatientJourneyEvent(PidUpper, "neutral", "accepting", 2, None, None),
          PatientJourneyEvent(PidLower, "positive", "researching", 2, None,
                              Some(FeatureList(6)))}

\* Events other agents send in the agent specification.
AgentEvents ==
    {PatientJourneyEvent(PidUpper, "positive", "consulting", 1, FullMetrics(80),
                         Some(FeatureList(4))),
     PatientJourneyEvent(PidLower, "negative", "completed", 2, Some(<<>>), None),
     PatientJourneyEvent(PidUpper, "neutral", "hesitant", 2, None, None)}

\* Identifiers a user may ask about: those of the events, an unknown one, the
\* identifier `simulate data` echoes and the identifier of the event it sends.
QueryIds ==
    {PidUpper, PidLower, PidUnknown}
    \cup {NewPatientId(u) : u \in Uuids}
    \cup {TestPatientPrefix \o NewPatientId(u) : u \in Uuids}

ChatTexts ==
    {CmdHelp, TextHelpMixed, CmdStatus, CmdPatientStats, CmdSentimentSummary,
     CmdSimulateData, CmdGenerateReport, CmdExplainScoring, CmdWhoAreYou, TextHello}
    \cup {CmdPatientStats \o id : id \in QueryIds}
    \cup {TextStatsUpper \o PidLower}

ChatContents ==
    {<<>>, <<OtherContent>>}
    \cup {<<TextContent(t)>> : t \in ChatTexts}
    \cup {<<TextContent(CmdSimulateData), TextContent(CmdSimulateData)>>,
          <<TextContent(CmdHelp), TextContent(CmdStatus)>>,
          <<TextContent(CmdStatus), OtherContent>>,
          <<TextContent(TextHello), TextContent(CmdSimulateData)>>,
          <<TextContent(CmdSimulateData), TextContent(CmdHelp)>>}

\* uuid4().int % 20, % 10, % 30, % 15: one value of each.
SimJitters == {<<19, 9, 29, 14>>}

\* datetime.now() at the time of the command.
SimInstants == {3}

SimDraws == [uuid : Uuids, jitter : SimJitters, now : SimInstants]

DrawSeqs(n) == [1..n -> SimDraws]

\* Events for the scoring functions: every stage, every feature count up to
\* MaxFeatures, and metrics absent, empty, with one key or all keys on the grid
\* of tenths from -GridLow/10 to GridHigh/10, or with any subset of the keys.
MetricGrid == {10 * k : k \in (-GridLow)..GridHigh}

ScoreMetrics ==
    {None, Some(<<>>)}
    \cup {Some(k :> v) : k \in MetricKeys, v \in MetricGrid}
    \cup {FullMetrics(v) : v \in MetricGrid}
    \cup {Some([k \in K |-> 80]) : K \in SUBSET MetricKeys}

ScoreInputs ==
    {PatientJourneyEvent(PidUpper, "positive", g, 1, m, f) :
        g \in JourneyStage, m \in ScoreMetrics,
        f \in {None} \cup {Some(FeatureList(n)) : n \in 0..MaxFeatures}}

---------------------------------------------------------------------------
(* Specifications.                                                         *)

NoHandler == [handler |-> "none", sender |-> "", msg |-> <<>>, raised |-> ""]

InitAgent ==
    /\ journey_stats = EmptyAnalytics.journey_stats
    /\ sentiment_history = EmptyAnalytics.sentiment_history
    /\ recent_scores = EmptyAnalytics.recent_scores
    /\ inbox = <<>>
    /\ sent = <<>>
    /\ handled = NoHandler
    /\ ingested = <<>>
    /\ echoed = {}

Init ==
    /\ InitAgent
    /\ probe = <<>>
    /\ probe_score = <<>>

\* An event of another agent arrives and is handled.
ReceiveEvent ==
    \E ev \in AgentEvents :
        /\ Len(ingested) + Len(inbox) < MaxAgentEvents
        /\ handle_patient_journey(EventSender, ev)
        /\ UNCHANGED inbox

\* The oldest event the agent sent to itself is handled.
DeliverSimulated ==
    /\ inbox # <<>>
    /\ handle_patient_journey(AgentAddress, Head(inbox))
    /\ inbox' = Tail(inbox)

ReceiveChat ==
    \E content \in ChatContents :
        LET n == NumSimulate(content)
        IN /\ Len(inbox) + n <= MaxInbox
           /\ Len(ingested) + Len(inbox) + n <= MaxAgentEvents
           /\ \E env \in Envelopes, response_id \in ResponseIds, draws \in DrawSeqs(n) :
                  handle_chat_message(env[1], ChatMessage(env[2], content), draws,
                                      response_id)

ReceiveAcknowledgement ==
    \E sender \in Users, id \in ResponseIds :
        handle_acknowledgement(sender, ChatAcknowledgement(id))

Next ==
    \/ ReceiveEvent
    \/ DeliverSimulated
    \/ ReceiveChat
    \/ ReceiveAcknowledgement

Spec == Init /\ [][Next]_vars

\* The store alone, under the patient-journey handler.
StoreReceive ==
    \E ev \in StoreEvents :
        /\ Len(ingested) < MaxEvents
        /\ handle_patient_journey(EventSender, ev)
        /\ UNCHANGED inbox

NextStore == StoreReceive

SpecStore == Init /\ [][NextStore]_vars

\* The scoring functions alone, applied to one event.
InitScore ==
    /\ InitAgent
    /\ probe \in ScoreInputs
    /\ probe_score = <<>>

Score ==
    /\ probe_score = <<>>
    /\ probe_score' = SubScores(probe)
    /\ UNCHANGED <<journey_stats, sentiment_history, recent_scores, inbox, sent,
                   handled, ingested, echoed, probe>>

NextScore == Score

SpecScore == InitScore /\ [][NextScore]_vars

---------------------------------------------------------------------------
(* Properties.                                                             *)

SentTo(addr) == SelectSeq(sent, LAMBDA s : s.to = addr)

\* The response text of the chat message handled last.
ResponseText == sent[Len(sent)].msg.content[1].text

\* C1: after handle_chat_message has handled a ChatMessage, whatever its content,
\* the messages it sent to the sender are exactly two: first a ChatAcknowledgement
\* whose acknowledged_msg_id is the inbound msg_id, then one ChatMessage.
C1_AckThenResponse ==
    handled.handler = "chat" =>
        LET mine == SentTo(handled.sender)
        IN /\ Len(mine) = 2
           /\ mine[1].msg.kind = "ChatAcknowledgement"
           /\ mine[1].msg.acknowledged_msg_id = handled.msg.msg_id
           /\ mine[2].msg.kind = "ChatMessage"

\* A message with two `simulate data` items was handled: four sends, two of them
\* to the sender.
C1_Witness ==
    /\ handled.handler = "chat"
    /\ Len(handled.msg.content) = 2
    /\ Len(sent) = 4
    /\ handled.msg.msg_id = "m2"

SubScoreFields ==
    {"technology_score", "engagement_score", "efficiency_score",
     "practicality_score", "scalability_score", "impact_score"}

\* C2: every score stored as a patient's most recent score has each of its six
\* sub-scores in 0..5 and its total in 0..30, whatever the event's metric values.
C2_StoredScoresInRange ==
    \A p \in DOMAIN recent_scores :
        /\ \A f \in SubScoreFields : recent_scores[p][f] \in 0..5
        /\ total_score(recent_scores[p]) \in 0..30

\* The position in SubScores of the sub-score derived from a metric key.
KeyIndex(k) ==
    CASE k = "process_efficiency" -> 3
      [] k = "business_value" -> 4
      [] k = "scalability_potential" -> 5
      [] k = "impact_factor" -> 6

Clamp(x, lo, hi) == IF x < lo THEN lo ELSE IF x > hi THEN hi ELSE x

\* Python's round(m * 5) for m = v/100: the nearest integer to v/20, a tie going
\* to the even one.
PyRoundTimes5(v) ==
    LET q == v \div 20
        r == v % 20
    IN IF r < 10 THEN q
       ELSE IF r > 10 THEN q + 1
       ELSE IF q % 2 = 0 THEN q ELSE q + 1

\* The integer part of m * 5 for m = v/100, stated by its bounds.
TruncTimes5(v) ==
    CHOOSE n \in (-GridLow - 1)..(GridHigh + 1) :
        IF v >= 0 THEN 100 * n <= 5 * v /\ 5 * v < 100 * (n + 1)
        ELSE 100 * n >= 5 * v /\ 5 * v > 100 * (n - 1)

PresentKeys == IF probe.metrics = None THEN {} ELSE DOMAIN probe.metrics[1]

\* C3 as claimed, on the metric values m >= 0 of the grid: each metric-derived
\* sub-score is clamp(round(m * 5), 0, 5).  (For m < 0 the claimed value is 0 and
\* the code's is negative: the missing lower bound of C2.)
C3_ClampRound ==
    probe_score # <<>> =>
        \A k \in PresentKeys :
            probe.metrics[1][k] >= 0 =>
                /\ probe_score[KeyIndex(k)].raised = ""
                /\ probe_score[KeyIndex(k)].val
                      = Clamp(PyRoundTimes5(probe.metrics[1][k]), 0, 5)

\* C3 as amended: each metric-derived sub-score is min(5, int(m * 5)), the product
\* truncated toward zero and bounded above only; m = 0.8 gives 4, m = 1.0 gives 5,
\* m = 2.0 gives 5 and m = 0 gives 0.
C3_MinTrunc ==
    probe_score # <<>> =>
        \A k \in PresentKeys :
            LET v == probe.metrics[1][k]
                x == probe_score[KeyIndex(k)]
                t == TruncTimes5(v)
            IN /\ x.raised = ""
               /\ x.val = IF t > 5 THEN 5 ELSE t
               /\ (v = 80 => x.val = 4)
               /\ (v = 100 => x.val = 5)
               /\ (v = 200 => x.val = 5)
               /\ (v = 0 => x.val = 0)

\* m = 0.3 for every key: round(1.5) is 2, the sub-scores are 1.
C3_Witness ==
    /\ probe_score # <<>>
    /\ probe.metrics = FullMetrics(30)
    /\ PyRoundTimes5(30) = 2
    /\ \A k \in MetricKeys : probe_score[KeyIndex(k)].val = 1

\* The <q> of a `patient stats <q>` query.
QueryArg(user_query) ==
    strip(SubSeq(user_query, Len(CmdPatientStats) + 1, Len(user_query)))

\* C4: a `patient stats <q>` query is answered with the record and most recent
\* score of a stored identifier equal to q when case is ignored, and with the
\* not-found message only when no stored identifier matches.
C4_CaseInsensitiveLookup ==
    (/\ handled.handler = "chat"
     /\ Len(handled.msg.content) = 1
     /\ handled.msg.content[1].type = "text"
     /\ startswith(UserQuery(handled.msg.content[1]), CmdPatientStats)) =>
        LET q == QueryArg(UserQuery(handled.msg.content[1]))
            matches == {P \in DOMAIN journey_stats : lower(P) = lower(q)}
        IN IF matches = {} THEN ResponseText.kind = "not_found"
           ELSE /\ ResponseText.kind = "patient_stats"
                /\ \E P \in matches :
                       /\ ResponseText.current_stage = journey_stats[P].current_stage
                       /\ ResponseText.stage_changes = journey_stats[P].stage_changes
                       /\ ResponseText.score_info = Some(recent_scores[P])

\* The events recorded for a patient identifier, in order.
IngestedFor(pid) == SelectSeq(ingested, LAMBDA e : e.patient_id = pid)

\* C5: once the event sent by `simulate data` has been ingested, the query
\* `patient stats <echoed identifier>` returns that event's record, with current
\* stage researching, and not the not-found message.
C5_EchoedIdQueryable ==
    \A e \in echoed :
        IngestedFor(e.patient_id) # <<>> =>
            LET r == Dispatch(analytics,
                              UserQuery(TextContent(CmdPatientStats \o e.echo)), <<>>)
            IN /\ r.response_text.kind = "patient_stats"
               /\ r.response_text.current_stage = "researching"

CountOf(events, sentiment) ==
    Cardinality({i \in 1..Len(events) : events[i].sentiment = sentiment})

\* C6: every Patient Record is the summary of the events ingested for its
\* identifier: stage_changes is their number, the sentiment counters are the
\* numbers of positive and of negative ones, and current_stage, last_sentiment
\* and the most recent score are those of the last one; an identifier has a
\* record exactly when an event was ingested for it.
C6_RecordSummarisesEvents ==
    /\ \A i \in 1..Len(ingested) : ingested[i].patient_id \in DOMAIN journey_stats
    /\ \A P \in DOMAIN journey_stats :
           LET evs == IngestedFor(P)
               last == evs[Len(evs)]
               r == journey_stats[P]
           IN /\ evs # <<>>
              /\ r.stage_changes = Len(evs)
              /\ r.positive_sentiments = CountOf(evs, "positive")
              /\ r.negative_sentiments = CountOf(evs, "negative")
              /\ r.positive_sentiments + r.negative_sentiments <= r.stage_changes
              /\ r.current_stage = last.journey_stage
              /\ r.last_sentiment = last.sentiment
              /\ recent_scores[P] = ComputeScore(last).val

\* Three events for P1, two positive and one negative, the stage the same in all.
C6_Witness ==
    /\ PidUpper \in DOMAIN journey_stats
    /\ journey_stats[PidUpper].stage_changes = 3
    /\ journey_stats[PidUpper].positive_sentiments = 2
    /\ journey_stats[PidUpper].negative_sentiments = 1
    /\ \A i \in 1..Len(ingested) : ingested[i].journey_stage = "completed"

MsgsOf(sends) == [i \in 1..Len(sends) |-> sends[i].msg]

\* C7: a step of the chat handler or of the acknowledgement handler leaves the
\* three parts of the store unchanged; the events `simulate data` sends are only
\* appended to the messages in flight to the agent.
C7_ChatLeavesStore ==
    [][handled'.handler \in {"chat", "ack"} =>
          /\ UNCHANGED <<journey_stats, sentiment_history, recent_scores>>
          /\ inbox' = inbox \o MsgsOf(SelectSeq(sent', LAMBDA s : s.to = AgentAddress))
          /\ handled'.handler = "ack" => inbox' = inbox]_vars

\* `simulate data` was handled with a non-empty store, and its event is in flight.
C7_Witness ==
    /\ handled.handler = "chat"
    /\ journey_stats # <<>>
    /\ ResponseText.kind = "simulated"
    /\ inbox # <<>>
    /\ inbox[Len(inbox)].patient_id \notin DOMAIN journey_stats

\* C8: scoring raises for no event: the technology score of an absent feature
\* list is 0, and a sub-score whose metric key is missing, the metrics mapping
\* itself being absent included, is the non-zero score of the default 0.2.
C8_ScoringNeverRaises ==
    probe_score # <<>> =>
        /\ \A i \in 1..6 : probe_score[i].raised = ""
        /\ probe.tech_features = None => probe_score[1].val = 0
        /\ \A k \in MetricKeys \ PresentKeys :
               /\ probe_score[KeyIndex(k)].val = TruncTimes5(DefaultMetric)
               /\ probe_score[KeyIndex(k)].val > 0

\* C9: a step that handles an event and fails leaves the store as it was, and a
\* step that handles an event without failing records it in full, whatever
\* failed before.
C9_FailedEventNoEffect ==
    [][handled'.handler = "event" =>
          IF handled'.raised # ""
          THEN UNCHANGED <<journey_stats, sentiment_history, recent_scores>>
          ELSE /\ Len(sentiment_history') = Len(sentiment_history) + 1
               /\ handled'.msg.patient_id \in DOMAIN journey_stats'
               /\ journey_stats'[handled'.msg.patient_id].stage_changes
                     = IF handled'.msg.patient_id \in DOMAIN journey_stats
                       THEN journey_stats[handled'.msg.patient_id].stage_changes + 1
                       ELSE 1]_vars

\* An event failed in scoring after two events had been recorded.
C9_Witness ==
    /\ handled.handler = "event"
    /\ handled.raised = "AttributeError"
    /\ Len(sentiment_history) = 2

RECURSIVE SumStageChanges(_)
SumStageChanges(S) ==
    IF S = {} THEN 0
    ELSE LET p == CHOOSE x \in S : TRUE
         IN journey_stats[p].stage_changes + SumStageChanges(S \ {p})

\* C10: the identifiers in the sentiment history, those with a Patient Record and
\* those with a most recent score are the same set, and the length of the history
\* is the sum of stage_changes over the Patient Records.
C10_StoreConsistent ==
    /\ {sentiment_history[i].patient_id : i \in 1..Len(sentiment_history)}
          = DOMAIN journey_stats
    /\ DOMAIN recent_scores = DOMAIN journey_stats
    /\ Len(sentiment_history) = SumStageChanges(DOMAIN journey_stats)

\* Two patients in the store, three events in the history, one of them neutral.
C10_Witness ==
    /\ Cardinality(DOMAIN journey_stats) = 2
    /\ Len(sentiment_history) = 3
    /\ \E i \in 1..3 : sentiment_history[i].sentiment = "neutral"

============================================================================
